---- MODULE Spec2Model ----
(***************************************************************************)
(* GaseraMux home tab: the progress-event handler (SSEHandler), the phase  *)
(* buttons (applyPhase), the start countdown, the run-summary alert with   *)
(* its per-cycle dismissal record (showAlert) and the jar grid.            *)
(*                                                                         *)
(* The browser runs every handler to completion on one event loop, so each *)
(* handler is one action.  A nullable or optional JavaScript value is a    *)
(* sequence of length 0 (null / undefined / absent) or 1.                  *)
(***************************************************************************)
EXTENDS Integers, Sequences, FiniteSets, TLC

\* ------------------------------------------------------------- bounds
\* Jars of the grid that the model follows (the grid has TOTAL_JARS of them).
NumJars == 2
\* Start requests followed in one session (run identifiers 0..MaxCycle).
MaxCycle == 2

\* ---------------------------------------------------------- constants
START_DELAY == 5

Jars == 1..NumJars
Channels == 0..(NumJars - 1)

PHASES == {"IDLE", "MEASURING", "PAUSED", "SWITCHING", "HOMING", "ABORTED"}
\* A phase string the client does not know (a newer backend, a typo).
UnknownPhase == "CALIBRATING"
WirePhases == PHASES \cup {UnknownPhase}

Opt(S) == {<< >>} \cup {<<x>> : x \in S}
\* JavaScript `a ?? b`
OrElse(o, dflt) == IF o = << >> THEN dflt ELSE o[1]

VARIABLES
  currentChannel,       \* let currentChannel = -1
  currentPhase,         \* let currentPhase = null
  btnStartDisabled,     \* btnStart.disabled
  btnAbortDisabled,     \* btnAbort.disabled
  countdownTimer,       \* countdownTimer is a handle (TRUE) or null (FALSE)
  intervalActive,       \* the interval behind the handle still fires
  countdown,            \* let countdown = START_DELAY
  isMeasurementRunning, \* window.isMeasurementRunning
  gridLocked,           \* jarGrid has class "locked"
  jars,                 \* jar data-id -> its classList
  channelInfo,          \* channelBadge.textContent, channelCircle.dataset.phase
  repeatCircle,         \* #repeatCircle with #repeatText
  runCircle,            \* #runCircle with #runPct
  overallCircle,        \* #overallCircle with #overallPct
  latestElapsedSeconds, \* window.latestElapsedSeconds
  latestTtSeconds,      \* window.latestTtSeconds
  latestNextChannel,    \* window.latestNextChannel
  latestCurrentChannel, \* window.latestCurrentChannel
  measurementCycle,     \* sessionStorage item "measurementCycle"
  dismissedAlerts,      \* sessionStorage item "dismissedAlerts" (its keys)
  toast,                \* the #centerToast element with its click closure
  startInFlight,        \* start requests sent and not yet answered
  startsOk,             \* start requests the backend answered with ok: true
  evPair,               \* (channel, phase) of the last processed event
  last                  \* what the last handler did

vars == <<currentChannel, currentPhase, btnStartDisabled, btnAbortDisabled,
          countdownTimer, intervalActive, countdown, isMeasurementRunning,
          gridLocked, jars, channelInfo, repeatCircle, runCircle, overallCircle,
          latestElapsedSeconds, latestTtSeconds,
          latestNextChannel, latestCurrentChannel, measurementCycle,
          dismissedAlerts, toast, startInFlight, startsOk, evPair, last>>

buttonVars == <<btnStartDisabled, btnAbortDisabled>>
timerVars == <<countdownTimer, intervalActive, countdown>>
engineVars == <<currentChannel, currentPhase>>
alertVars == <<dismissedAlerts, toast>>
requestVars == <<startInFlight, startsOk>>
circleVars == <<repeatCircle, runCircle, overallCircle>>
latestVars == <<latestElapsedSeconds, latestTtSeconds, latestNextChannel,
               latestCurrentChannel>>

NoFx == {}
\* What a handler other than SSEHandler leaves in `last`: no event, and the
\* event sequence of scenario A is broken off (-1)
Did(op) == [op |-> op, repeat |-> FALSE, phaseChanged |-> FALSE,
            fx |-> NoFx, notify |-> << >>, ev |-> << >>, scenarioA |-> -1,
            mask |-> << >>]

\* Scenario A: the channel mask [true, true, false, ...] and the events
\* IDLE, MEASURING(ch=0), MEASURING(ch=1), SWITCHING(ch=1), IDLE delivered
\* to a freshly loaded page.  ScenarioAStep(k, d) is the number of scenario
\* events processed once d has arrived after the first k of them.
ScenarioAMask == [i \in Jars |-> i <= 2]

ScenarioAStep(k, d) ==
  IF k = 0 /\ d.phase = <<"IDLE">> THEN 1
  ELSE IF k = 1 /\ d.phase = <<"MEASURING">> /\ d.current_channel = <<0>> THEN 2
  ELSE IF k = 2 /\ d.phase = <<"MEASURING">> /\ d.current_channel = <<1>> THEN 3
  ELSE IF k = 3 /\ d.phase = <<"SWITCHING">> /\ d.current_channel = <<1>> THEN 4
  ELSE IF k = 4 /\ d.phase = <<"IDLE">> THEN 5
  ELSE -1

\* ----------------------------------------------------------- numbers
\* A JavaScript number that the progress code can meet: NaN, +Infinity,
\* -Infinity, or the quotient n/d of two integers in lowest terms (d > 0).
NaN == [k |-> "nan", n |-> 0, d |-> 1]
PosInf == [k |-> "inf", n |-> 1, d |-> 1]
NegInf == [k |-> "inf", n |-> -1, d |-> 1]

Abs(i) == IF i < 0 THEN -i ELSE i

RECURSIVE Gcd(_, _)
Gcd(a, b) == IF b = 0 THEN a ELSE Gcd(b, a % b)

Quot(n, d) ==
  LET g == Gcd(Abs(n), d) IN [k |-> "num", n |-> n \div g, d |-> d \div g]

Num(i) == Quot(i, 1)

\* a / b for integers a and b
Div(a, b) ==
  IF b = 0 THEN (IF a = 0 THEN NaN ELSE IF a > 0 THEN PosInf ELSE NegInf)
  ELSE IF b > 0 THEN Quot(a, b) ELSE Quot(-a, -b)

\* x * 100
Times100(x) == IF x.k = "num" THEN Quot(x.n * 100, x.d) ELSE x

\* x || 0: NaN and 0 are falsy
OrZero(x) == IF x.k = "nan" THEN Num(0) ELSE x

\* x <= i for a number that is not NaN
Leq(x, i) == IF x.k = "inf" THEN x.n < 0 ELSE x.n <= i * x.d

\* Math.max(0, Math.min(100, percent || 0))
Clamp(percent) ==
  LET x == OrZero(percent) IN
  IF Leq(x, 0) THEN Num(0) ELSE IF Leq(x, 100) THEN x ELSE Num(100)

\* ------------------------------------------------- progress circles
\* updateProgressCircle(elId, textId, percent, textContent): the circle's
\* stroke-dasharray, its text and its data-pct colour range
updateProgressCircle(percent, textContent) ==
  LET pct == Clamp(percent) IN
  << [ pct |-> pct, text |-> textContent,
       range |-> IF Leq(pct, 25) THEN "0-25"
                 ELSE IF Leq(pct, 50) THEN "26-50"
                 ELSE IF Leq(pct, 75) THEN "51-75"
                 ELSE "76-100" ] >>

\* updateRepeatInfo(rep, repeatTotal)
updateRepeatInfo(r, repeatTotal) ==
  LET total == repeatTotal
      pct == Times100(Div(r, total))
  IN updateProgressCircle(pct, <<r, "/", total>>)

\* updateCycleProgress(pct, stepIndex, enabledCount)
updateCycleProgress(pct, stepIndex, enabledCount) ==
  LET total == enabledCount
      completedInCycle == IF total > 0 THEN stepIndex % total ELSE 0
  IN updateProgressCircle(Num(pct), <<completedInCycle, "/", total>>)

\* updateCircularProgress(percent)
updateCircularProgress(percent) ==
  LET pct == Clamp(Num(percent)) IN updateProgressCircle(pct, <<pct, "%">>)

\* ------------------------------------------------------------ phases
isActivePhase(phase) == phase \in {"MEASURING", "PAUSED", "SWITCHING", "HOMING"}

\* applyPhase with the ABORTED case of its re-enabling test dropped
StartDisabledFor_IdleOnly(phase) == ~(phase = "IDLE")

\* btnStart.disabled / btnAbort.disabled as applyPhase leaves them
StartDisabledFor(phase) == ~(phase = "IDLE" \/ phase = "ABORTED")

\* applyPhase without its first block: a pending countdown is left running
applyPhase_NoCancel(phase) ==
  [ countdownTimer   |-> countdownTimer,
    intervalActive   |-> intervalActive,
    countdown        |-> countdown,
    btnStartDisabled |-> StartDisabledFor(phase),
    btnAbortDisabled |-> ~StartDisabledFor(phase) ]

\* applyPhase(phase): a pending countdown is cancelled by any phase but IDLE,
\* then the two buttons are set from the phase.
applyPhase(phase) ==
  LET cancel == countdownTimer /\ phase # "IDLE" IN
  [ countdownTimer   |-> IF cancel THEN FALSE ELSE countdownTimer,
    intervalActive   |-> IF cancel THEN FALSE ELSE intervalActive,
    countdown        |-> IF cancel THEN START_DELAY ELSE countdown,
    btnStartDisabled |-> StartDisabledFor(phase),
    btnAbortDisabled |-> ~StartDisabledFor(phase) ]

\* ------------------------------------------------------------- jars
\* resetJarStates(): classList.remove("sampling", "sampled") on every jar
resetJarStates(js) == [i \in Jars |-> js[i] \ {"sampling", "sampled"}]

\* updateJarColors(ch, phase) on the jar with data-id ch + 1
updateJarColors(js, ch, phase) ==
  LET id == ch + 1 IN
  IF id \notin Jars \/ "active" \notin js[id] THEN js
  ELSE LET base == js[id] \ {"sampling", "paused"} IN
       [js EXCEPT ![id] =
          IF phase = "MEASURING" THEN (base \ {"sampled"}) \cup {"sampling"}
          ELSE IF phase = "PAUSED" THEN (base \ {"sampled"}) \cup {"paused"}
          ELSE IF phase = "SWITCHING" THEN base \cup {"sampled"}
          ELSE base]

\* classList.toggle("active", state)
SetActive(cls, state) == IF state THEN cls \cup {"active"} ELSE cls \ {"active"}
\* classList.toggle("active")
ToggleActive(cls) == SetActive(cls, "active" \notin cls)

\* getJarMask(): one flag per .jar element
getJarMask == [i \in DOMAIN jars |-> "active" \in jars[i]]

\* ------------------------------------------------------------ alerts
\* `${currentCycle}:${type}:${message}` with currentCycle read from the
\* session store, "0" when the item is absent.
DismissKey(message, type) == <<OrElse(measurementCycle, 0), type, message>>

\* showAlert without the early return for a dismissed key
showAlert_NoDedup(message, type) ==
  << [ key |-> DismissKey(message, type), dismissed |-> dismissedAlerts,
       message |-> message, type |-> type, clicked |-> FALSE ] >>

\* showAlert(message, type): the toast after the call.  A dismissed key
\* returns early; otherwise the existing toast is replaced by a new one
\* whose click handler closes over the record read at this call.
showAlert(message, type) ==
  LET dismissed == dismissedAlerts
      dismissKey == DismissKey(message, type)
  IN IF dismissKey \in dismissed THEN toast
     ELSE << [ key |-> dismissKey, dismissed |-> dismissed,
               message |-> message, type |-> type, clicked |-> FALSE ] >>

\* showMeasurementSummaryToast's message: title, completed/total, duration
Summary(title, completedSteps, totalSteps, formattedTime) ==
  [ title |-> title, completed |-> completedSteps, total |-> totalSteps,
    duration |-> formattedTime ]

\* The completion branch without its test of the previous phase
SummaryFor_AnyIdle(prevPhase, newPhase, stepIndex, totalSteps, formattedTime) ==
  IF newPhase = "ABORTED"
    THEN << [ message |-> Summary("Measurement Aborted", stepIndex, totalSteps, formattedTime),
              type |-> "danger" ] >>
  ELSE IF newPhase = "IDLE"
    THEN << [ message |-> Summary("Measurement Complete", totalSteps, totalSteps, formattedTime),
              type |-> "success" ] >>
  ELSE << >>

\* The completion branch reporting the step index as the completed count
SummaryFor_CompleteByStepIndex(prevPhase, newPhase, stepIndex, totalSteps, formattedTime) ==
  IF newPhase = "ABORTED"
    THEN << [ message |-> Summary("Measurement Aborted", stepIndex, totalSteps, formattedTime),
              type |-> "danger" ] >>
  ELSE IF prevPhase = <<"SWITCHING">> /\ newPhase = "IDLE"
    THEN << [ message |-> Summary("Measurement Complete", stepIndex, totalSteps, formattedTime),
              type |-> "success" ] >>
  ELSE << >>

\* The abort branch reporting the total as the completed count
SummaryFor_AbortedByTotal(prevPhase, newPhase, stepIndex, totalSteps, formattedTime) ==
  IF newPhase = "ABORTED"
    THEN << [ message |-> Summary("Measurement Aborted", totalSteps, totalSteps, formattedTime),
              type |-> "danger" ] >>
  ELSE IF prevPhase = <<"SWITCHING">> /\ newPhase = "IDLE"
    THEN << [ message |-> Summary("Measurement Complete", totalSteps, totalSteps, formattedTime),
              type |-> "success" ] >>
  ELSE << >>

\* The completion/abort branch of SSEHandler: the summary to show, if any.
SummaryFor(prevPhase, newPhase, stepIndex, totalSteps, formattedTime) ==
  IF newPhase = "ABORTED"
    THEN << [ message |-> Summary("Measurement Aborted", stepIndex, totalSteps, formattedTime),
              type |-> "danger" ] >>
  ELSE IF prevPhase = <<"SWITCHING">> /\ newPhase = "IDLE"
    THEN << [ message |-> Summary("Measurement Complete", totalSteps, totalSteps, formattedTime),
              type |-> "success" ] >>
  ELSE << >>

\* ------------------------------------------------------ SSEHandler
\* phaseChanged when the handler has no test against the stored phase
PhaseChanged_Always(newPhase) == TRUE

\* channelChanged when the handler has no test against the stored channel
ChannelChanged_Always(ch) == TRUE

ChannelChanged(ch) == currentChannel # ch
PhaseChanged(newPhase) == currentPhase # <<newPhase>>

\* The phase stored as last seen at the end of the phaseChanged block
StoredPhase(newPhase) == <<newPhase>>

CircleFx == {"updateRepeatInfo", "updateCycleProgress", "updateCircularProgress"}

\* The extraction with 1 in place of 0 for an absent numeric field
PayloadFields_DefaultOne(d) ==
  [ ch           |-> OrElse(d.current_channel, 1),
    rep          |-> OrElse(d.repeat_index, OrElse(d.repeat, 1)),
    pct          |-> OrElse(d.percent, 1),
    overallPct   |-> OrElse(d.overall_percent, 1),
    newPhase     |-> OrElse(d.phase, "IDLE"),
    stepIndex    |-> OrElse(d.step_index, 1),
    enabledCount |-> OrElse(d.enabled_count, 1),
    repeatTotal  |-> OrElse(d.repeat_total, 1),
    totalSteps   |-> OrElse(d.total_steps, 1) ]

\* "Extract data from SSE payload": the nine constants read from d
PayloadFields(d) ==
  [ ch           |-> OrElse(d.current_channel, 0),
    rep          |-> OrElse(d.repeat_index, OrElse(d.repeat, 0)),
    pct          |-> OrElse(d.percent, 0),
    overallPct   |-> OrElse(d.overall_percent, 0),
    newPhase     |-> OrElse(d.phase, "IDLE"),
    stepIndex    |-> OrElse(d.step_index, 0),
    enabledCount |-> OrElse(d.enabled_count, 0),
    repeatTotal  |-> OrElse(d.repeat_total, 0),
    totalSteps   |-> OrElse(d.total_steps, 0) ]

SSEHandler(d, formattedTime) ==
  \E x \in {PayloadFields(d)} :
  LET ch == x.ch
      newPhase == x.newPhase
      r == x.rep
      pct == x.pct
      overallPct == x.overallPct
      stepIndex == x.stepIndex
      enabledCount == x.enabledCount
      repeatTotal == x.repeatTotal
      totalSteps == x.totalSteps
      channelChanged == ChannelChanged(ch)
      phaseChanged == PhaseChanged(newPhase)
      reset == channelChanged /\ phaseChanged /\ ch = 0
      jars1 == IF reset THEN resetJarStates(jars) ELSE jars
      ap == applyPhase(newPhase)
      summary == IF phaseChanged
                   THEN SummaryFor(currentPhase, newPhase, stepIndex, totalSteps, formattedTime)
                   ELSE << >>
  IN /\ latestElapsedSeconds' = <<OrElse(d.elapsed_seconds, 0)>>
     /\ latestTtSeconds' = <<OrElse(d.tt_seconds, 0)>>
     /\ latestNextChannel' = <<OrElse(d.next_channel, 0)>>
     /\ latestCurrentChannel' = <<ch>>
     /\ currentChannel' = IF channelChanged THEN ch ELSE currentChannel
     /\ IF phaseChanged
          THEN /\ countdownTimer' = ap.countdownTimer
               /\ intervalActive' = ap.intervalActive
               /\ countdown' = ap.countdown
               /\ btnStartDisabled' = ap.btnStartDisabled
               /\ btnAbortDisabled' = ap.btnAbortDisabled
               /\ jars' = updateJarColors(jars1, ch, newPhase)
               /\ isMeasurementRunning' = isActivePhase(newPhase)
               /\ gridLocked' = isMeasurementRunning'
               /\ toast' = IF summary = << >> THEN toast
                           ELSE showAlert(summary[1].message, summary[1].type)
               /\ currentPhase' = StoredPhase(newPhase)
          ELSE /\ jars' = jars1
               /\ UNCHANGED <<timerVars, buttonVars, isMeasurementRunning,
                              gridLocked, toast, currentPhase>>
     /\ channelInfo' = IF phaseChanged \/ channelChanged
                         THEN << [badge |-> ch + 1, phase |-> newPhase] >>
                         ELSE channelInfo
     /\ repeatCircle' = updateRepeatInfo(r, repeatTotal)
     /\ runCircle' = updateCycleProgress(pct, stepIndex, enabledCount)
     /\ overallCircle' = updateCircularProgress(overallPct)
     /\ evPair' = << <<ch, newPhase>> >>
     /\ last' = [ op |-> "SSEHandler",
                  repeat |-> (evPair = << <<ch, newPhase>> >>),
                  phaseChanged |-> phaseChanged,
                  fx |-> CircleFx
                         \cup (IF reset THEN {"resetJarStates"} ELSE {})
                         \cup (IF phaseChanged
                                 THEN {"applyPhase", "updateJarColors", "updateGridLock"}
                                 ELSE {})
                         \cup (IF phaseChanged /\ isActivePhase(newPhase)
                                 THEN {"updateETTTDisplay"} ELSE {})
                         \cup (IF phaseChanged /\ countdownTimer /\ newPhase # "IDLE"
                                 THEN {"clearInterval"} ELSE {})
                         \cup (IF summary # << >>
                                 THEN {"showMeasurementSummaryToast"} ELSE {})
                         \cup (IF phaseChanged \/ channelChanged
                                 THEN {"updateChannelInfo"} ELSE {}),
                  notify |-> summary,
                  ev |-> <<d>>,
                  scenarioA |-> ScenarioAStep(last.scenarioA, d),
                  mask |-> << >> ]
     /\ UNCHANGED <<measurementCycle, dismissedAlerts, requestVars>>

\* The places where a call made by the handler can throw into its catch
\* block (282-284), which logs and returns without undoing anything:
\*   "payload"    line 227, the payload is null or undefined;
\*   "phaseBlock" lines 259-267, window.isActivePhase is not a function, or
\*                showMeasurementSummaryToast throws;
\*   "circles"    line 278, a progress-circle element is missing.
ThrowPoints == {"payload", "phaseBlock", "circles"}

\* SSEHandler when a call it makes throws at `point`: every assignment made
\* before the throw stays, everything after it is skipped.
SSEHandlerThrows(d, formattedTime, point) ==
  \E x \in {PayloadFields(d)} :
  LET ch == x.ch
      newPhase == x.newPhase
      stepIndex == x.stepIndex
      totalSteps == x.totalSteps
      channelChanged == ChannelChanged(ch)
      phaseChanged == PhaseChanged(newPhase)
      reset == channelChanged /\ phaseChanged /\ ch = 0
      jars1 == IF reset THEN resetJarStates(jars) ELSE jars
      ap == applyPhase(newPhase)
      summary == IF phaseChanged
                   THEN SummaryFor(currentPhase, newPhase, stepIndex, totalSteps, formattedTime)
                   ELSE << >>
      started == point # "payload"
      inBlock == started /\ phaseChanged
      pastBlock == point = "circles" /\ phaseChanged
  IN /\ point \in ThrowPoints
     /\ point = "phaseBlock" => phaseChanged
     /\ latestElapsedSeconds' = IF started THEN <<OrElse(d.elapsed_seconds, 0)>>
                                ELSE latestElapsedSeconds
     /\ latestTtSeconds' = IF started THEN <<OrElse(d.tt_seconds, 0)>>
                           ELSE latestTtSeconds
     /\ latestNextChannel' = IF started THEN <<OrElse(d.next_channel, 0)>>
                             ELSE latestNextChannel
     /\ latestCurrentChannel' = IF started THEN <<ch>> ELSE latestCurrentChannel
     /\ currentChannel' = IF started /\ channelChanged THEN ch ELSE currentChannel
     /\ IF inBlock
          THEN /\ countdownTimer' = ap.countdownTimer
               /\ intervalActive' = ap.intervalActive
               /\ countdown' = ap.countdown
               /\ btnStartDisabled' = ap.btnStartDisabled
               /\ btnAbortDisabled' = ap.btnAbortDisabled
               /\ jars' = updateJarColors(jars1, ch, newPhase)
               /\ isMeasurementRunning' = isActivePhase(newPhase)
               /\ gridLocked' = isMeasurementRunning'
          ELSE /\ jars' = IF started THEN jars1 ELSE jars
               /\ UNCHANGED <<timerVars, buttonVars, isMeasurementRunning,
                              gridLocked>>
     /\ toast' = IF pastBlock /\ summary # << >>
                   THEN showAlert(summary[1].message, summary[1].type)
                   ELSE toast
     /\ currentPhase' = IF pastBlock THEN StoredPhase(newPhase) ELSE currentPhase
     /\ channelInfo' = IF point = "circles" /\ (phaseChanged \/ channelChanged)
                         THEN << [badge |-> ch + 1, phase |-> newPhase] >>
                         ELSE channelInfo
     /\ last' = [ Did("SSEHandlerThrew") EXCEPT
                    !.phaseChanged = started /\ phaseChanged,
                    !.notify = IF pastBlock THEN summary ELSE << >>,
                    !.ev = IF started THEN <<d>> ELSE << >> ]
     /\ UNCHANGED <<circleVars, measurementCycle, dismissedAlerts, requestVars,
                    evPair>>

\* ------------------------------------------------------- jar grid
\* Click on jar i
JarClick(i) ==
  /\ jars' = IF isMeasurementRunning THEN jars
             ELSE [jars EXCEPT ![i] = ToggleActive(jars[i]) \ {"sampled", "sampling"}]
  /\ last' = Did("jarClick")
  /\ UNCHANGED <<engineVars, buttonVars, timerVars, isMeasurementRunning,
                 gridLocked, channelInfo, circleVars, latestVars, measurementCycle, alertVars,
                 requestVars, evPair>>

\* btnAll / btnNone: setAllJars(state)
setAllJars(state) ==
  /\ jars' = [i \in Jars |-> SetActive(jars[i], state)]
  /\ last' = Did("setAllJars")
  /\ UNCHANGED <<engineVars, buttonVars, timerVars, isMeasurementRunning,
                 gridLocked, channelInfo, circleVars, latestVars, measurementCycle, alertVars,
                 requestVars, evPair>>

\* btnInvert: invertJars()
invertJars ==
  /\ jars' = [i \in Jars |-> ToggleActive(jars[i])]
  /\ last' = Did("invertJars")
  /\ UNCHANGED <<engineVars, buttonVars, timerVars, isMeasurementRunning,
                 gridLocked, channelInfo, circleVars, latestVars, measurementCycle, alertVars,
                 requestVars, evPair>>

\* ------------------------------------------------- start and abort
\* The session item "measurementCycle" holding the text "NaN", which is not
\* a number
NaNCycle == -1

\* parseInt(item || "0", 10): a number, or NaN (none) for the text "NaN"
ParseCycle(item) ==
  IF item = << >> THEN <<0>> ELSE IF item[1] = NaNCycle THEN << >> ELSE item

\* startMeasurement(): the run identifier is advanced, then the request sent;
\* (NaN + 1).toString() is "NaN"
NextCycle ==
  LET currentCycle == ParseCycle(measurementCycle) IN
  IF currentCycle = << >> THEN <<NaNCycle>> ELSE <<currentCycle[1] + 1>>

\* A countdown may still begin: the session is followed for MaxCycle start
\* requests.
StartsLeft ==
  OrElse(measurementCycle, 0) < MaxCycle /\ startInFlight < MaxCycle

\* The click handler cancelling without clearInterval: the handle is dropped
\* while the interval keeps firing
StartClick_NoClear ==
  /\ ~btnStartDisabled
  /\ countdownTimer \/ StartsLeft
  /\ IF isMeasurementRunning THEN UNCHANGED timerVars
     ELSE /\ countdown' = START_DELAY
          /\ IF countdownTimer
               THEN countdownTimer' = FALSE /\ intervalActive' = intervalActive
               ELSE countdownTimer' = TRUE /\ intervalActive' = TRUE
  /\ last' = Did("startClick")
  /\ UNCHANGED <<engineVars, buttonVars, isMeasurementRunning, gridLocked,
                 jars, channelInfo, circleVars, latestVars, measurementCycle, alertVars, requestVars, evPair>>

\* The click handler without `countdown = START_DELAY` (line 158)
StartClick_NoReset ==
  /\ ~btnStartDisabled
  /\ countdownTimer \/ StartsLeft
  /\ IF isMeasurementRunning THEN UNCHANGED timerVars
     ELSE /\ countdown' = countdown
          /\ IF countdownTimer
               THEN countdownTimer' = FALSE /\ intervalActive' = FALSE
               ELSE countdownTimer' = TRUE /\ intervalActive' = TRUE
  /\ last' = Did("startClick")
  /\ UNCHANGED <<engineVars, buttonVars, isMeasurementRunning, gridLocked,
                 jars, channelInfo, circleVars, latestVars, measurementCycle, alertVars, requestVars, evPair>>

\* Click on btnStart (a disabled button gets no click).  The run identifier
\* is capped at MaxCycle: no new countdown begins once it is reached.
StartClick ==
  /\ ~btnStartDisabled
  /\ countdownTimer \/ StartsLeft
  /\ IF isMeasurementRunning THEN UNCHANGED timerVars
     ELSE /\ countdown' = START_DELAY
          /\ IF countdownTimer
               THEN countdownTimer' = FALSE /\ intervalActive' = FALSE
               ELSE countdownTimer' = TRUE /\ intervalActive' = TRUE
  /\ last' = Did("startClick")
  /\ UNCHANGED <<engineVars, buttonVars, isMeasurementRunning, gridLocked,
                 jars, channelInfo, circleVars, latestVars, measurementCycle, alertVars, requestVars, evPair>>

\* The interval callback without clearInterval on expiry
Tick_NoClear ==
  /\ intervalActive
  /\ IF isMeasurementRunning
       THEN /\ intervalActive' = FALSE
            /\ last' = Did("tick")
            /\ UNCHANGED <<countdownTimer, countdown, measurementCycle,
                           btnStartDisabled, startInFlight>>
       ELSE /\ countdown' = countdown - 1
            /\ IF countdown' <= 0
                 THEN /\ countdownTimer' = FALSE
                      /\ intervalActive' = TRUE
                      /\ measurementCycle' = NextCycle
                      /\ btnStartDisabled' = TRUE
                      /\ startInFlight' = startInFlight + 1
                      /\ last' = Did("startMeasurement")
                 ELSE /\ last' = Did("tick")
                      /\ UNCHANGED <<countdownTimer, intervalActive,
                                     measurementCycle, btnStartDisabled,
                                     startInFlight>>
  /\ UNCHANGED <<engineVars, btnAbortDisabled, isMeasurementRunning, gridLocked,
                 jars, channelInfo, circleVars, latestVars, alertVars, startsOk, evPair>>

\* The interval callback marking the run active itself when it sends the
\* start request
Tick_SetsRunning ==
  /\ intervalActive
  /\ IF isMeasurementRunning
       THEN /\ intervalActive' = FALSE
            /\ last' = Did("tick")
            /\ UNCHANGED <<countdownTimer, countdown, measurementCycle,
                           btnStartDisabled, startInFlight, isMeasurementRunning>>
       ELSE /\ countdown' = countdown - 1
            /\ IF countdown' <= 0
                 THEN /\ countdownTimer' = FALSE
                      /\ intervalActive' = FALSE
                      /\ measurementCycle' = NextCycle
                      /\ btnStartDisabled' = TRUE
                      /\ startInFlight' = startInFlight + 1
                      /\ isMeasurementRunning' = TRUE
                      /\ last' = Did("startMeasurement")
                 ELSE /\ last' = Did("tick")
                      /\ UNCHANGED <<countdownTimer, intervalActive,
                                     measurementCycle, btnStartDisabled,
                                     startInFlight, isMeasurementRunning>>
  /\ UNCHANGED <<engineVars, btnAbortDisabled, gridLocked,
                 jars, channelInfo, circleVars, latestVars, alertVars, startsOk, evPair>>

\* One firing of the countdown interval
Tick ==
  /\ intervalActive
  /\ IF isMeasurementRunning
       THEN /\ intervalActive' = FALSE
            /\ last' = Did("tick")
            /\ UNCHANGED <<countdownTimer, countdown, measurementCycle,
                           btnStartDisabled, startInFlight>>
       ELSE /\ countdown' = countdown - 1
            /\ IF countdown' <= 0
                 THEN /\ countdownTimer' = FALSE
                      /\ intervalActive' = FALSE
                      /\ measurementCycle' = NextCycle
                      /\ btnStartDisabled' = TRUE
                      /\ startInFlight' = startInFlight + 1
                      /\ last' = Did("startMeasurement")
                 ELSE /\ last' = Did("tick")
                      /\ UNCHANGED <<countdownTimer, intervalActive,
                                     measurementCycle, btnStartDisabled,
                                     startInFlight>>
  /\ UNCHANGED <<engineVars, btnAbortDisabled, isMeasurementRunning, gridLocked,
                 jars, channelInfo, circleVars, latestVars, alertVars, startsOk, evPair>>

\* The start request's answer: ok: true, ok: false, or a failed fetch.
\* Both failures are only logged.
StartResponse(outcome) ==
  /\ startInFlight > 0
  /\ startInFlight' = startInFlight - 1
  /\ startsOk' = IF outcome = "ok" THEN startsOk + 1 ELSE startsOk
  /\ last' = Did(IF outcome = "ok" THEN "startOk" ELSE "startFailed")
  /\ UNCHANGED <<engineVars, buttonVars, timerVars, isMeasurementRunning,
                 gridLocked, jars, channelInfo, circleVars, latestVars, measurementCycle, alertVars, evPair>>

\* Click on btnAbort and "Yes, Abort": the request is sent, its answer logged
AbortClick ==
  /\ ~btnAbortDisabled
  /\ last' = Did("abortRequest")
  /\ UNCHANGED <<engineVars, buttonVars, timerVars, isMeasurementRunning,
                 gridLocked, jars, channelInfo, circleVars, latestVars, measurementCycle, alertVars,
                 requestVars, evPair>>

\* ------------------------------------------------------- the toast
\* The toast's click handler writing a record that holds its own key only
ToastClick_OnlyOwnKey ==
  /\ toast # << >>
  /\ LET t == toast[1]
         dismissed == {t.key}
     IN /\ dismissedAlerts' = dismissed
        /\ toast' = << [t EXCEPT !.dismissed = dismissed, !.clicked = TRUE] >>
  /\ last' = Did("toastClick")
  /\ UNCHANGED <<engineVars, buttonVars, timerVars, isMeasurementRunning,
                 gridLocked, jars, channelInfo, circleVars, latestVars, measurementCycle, requestVars, evPair>>

\* Click on the toast: the closure's record gets the key and is written back
ToastClick ==
  /\ toast # << >>
  /\ LET t == toast[1]
         dismissed == t.dismissed \cup {t.key}
     IN /\ dismissedAlerts' = dismissed
        /\ toast' = << [t EXCEPT !.dismissed = dismissed, !.clicked = TRUE] >>
  /\ last' = Did("toastClick")
  /\ UNCHANGED <<engineVars, buttonVars, timerVars, isMeasurementRunning,
                 gridLocked, jars, channelInfo, circleVars, latestVars, measurementCycle, requestVars, evPair>>

\* transitionend after a click: alertBox.remove()
ToastTransitionEnd ==
  /\ toast # << >>
  /\ toast[1].clicked
  /\ toast' = << >>
  /\ last' = Did("toastRemoved")
  /\ UNCHANGED <<engineVars, buttonVars, timerVars, isMeasurementRunning,
                 gridLocked, jars, channelInfo, circleVars, latestVars, measurementCycle,
                 dismissedAlerts, requestVars, evPair>>

\* ------------------------------------------------------------ Init
\* applyJarMask(mask): classList.toggle("active", !!mask[i]) on every jar
\* applyJarMask that rebuilds the grid with one jar per mask entry
applyJarMask_Resizes(js, mask) ==
  [i \in DOMAIN mask |-> SetActive({}, mask[i])]

\* mask[i] is undefined, so !!mask[i] is false, beyond the mask's length
applyJarMask(js, mask) ==
  [i \in DOMAIN js |-> SetActive(js[i], i \in DOMAIN mask /\ mask[i])]

\* The page once it is loaded: the jar grid is built, DOMContentLoaded has
\* run applyPhase("IDLE") and loadPreferences has applied the stored mask;
\* the tab's session store holds cycleItem as its run identifier.
InitStored(mask, cycleItem) ==
  /\ currentChannel = -1
  /\ currentPhase = << >>
  /\ btnStartDisabled = FALSE
  /\ btnAbortDisabled = TRUE
  /\ countdownTimer = FALSE
  /\ intervalActive = FALSE
  /\ countdown = START_DELAY
  /\ isMeasurementRunning = FALSE
  /\ gridLocked = FALSE
  /\ jars = applyJarMask([i \in Jars |-> {}], mask)
  /\ channelInfo = << >>
  /\ repeatCircle = << >>
  /\ runCircle = << >>
  /\ overallCircle = << >>
  /\ latestElapsedSeconds = << >>
  /\ latestTtSeconds = << >>
  /\ latestNextChannel = << >>
  /\ latestCurrentChannel = << >>
  /\ measurementCycle = cycleItem
  /\ dismissedAlerts = {}
  /\ toast = << >>
  /\ startInFlight = 0
  /\ startsOk = 0
  /\ evPair = << >>
  /\ last = [Did("DOMContentLoaded") EXCEPT
               !.scenarioA = IF mask = ScenarioAMask THEN 0 ELSE -1,
               !.mask = mask]

\* The same in a fresh tab: the session store is empty
InitPage(mask) == InitStored(mask, << >>)

Init == \E mask \in [Jars -> BOOLEAN] : InitPage(mask)

\* The same page with no jar selected in the stored preferences
InitNoJars == InitPage([i \in Jars |-> FALSE])

\* ------------------------------------------------------ event sets
\* getMeasurementTiming(): the formatted duration shown in a summary
Durations == {"00:42"}

\* The fields of the payload that the handler reads, each present or absent
Events(channels, phases, stepIndexes, totalSteps, elapsed) ==
  [ current_channel : channels, phase : phases,
    step_index : stepIndexes, total_steps : totalSteps,
    elapsed_seconds : elapsed, tt_seconds : {<< >>}, next_channel : {<< >>},
    repeat_index : {<< >>}, repeat : {<< >>}, repeat_total : {<< >>},
    percent : {<< >>}, overall_percent : {<< >>}, enabled_count : {<< >>} ]

Present(S) == {<<x>> : x \in S}

\* Events that name a channel and a known phase, and the empty event
JarEvents ==
  Events(Present(Channels), Present(PHASES), {<< >>}, {<< >>}, {<< >>})
    \cup Events({<< >>}, {<< >>}, {<< >>}, {<< >>}, {<< >>})

\* Events that name a channel and a known phase, with or without the
\* elapsed time
TimedEvents ==
  Events(Present(Channels), Present(PHASES), {<< >>}, {<< >>}, {<< >>, <<7>>})

\* Events that carry at most a phase, known or not
PhaseEvents == Events({<< >>}, Opt(WirePhases), {<< >>}, {<< >>}, {<< >>})

\* Events that carry at most a phase and step counts
StepEvents ==
  Events({<< >>}, Opt(WirePhases), {<< >>, <<1>>}, {<< >>, <<2>>}, {<< >>})

\* Events with any subset of the channel, phase, time and total-steps
\* fields, and events with any subset of the progress numbers (a repeat
\* total and an enabled count of 0 included, an overall percent above 100)
ProgressEvents ==
  [ current_channel : Opt({1}), phase : Opt({"MEASURING"}),
    step_index : {<< >>}, total_steps : Opt({2}),
    elapsed_seconds : Opt({7}), tt_seconds : Opt({9}), next_channel : Opt({1}),
    repeat_index : {<< >>}, repeat : {<< >>}, repeat_total : {<< >>},
    percent : {<< >>}, overall_percent : {<< >>}, enabled_count : {<< >>} ]
  \cup
  [ current_channel : {<< >>}, phase : {<< >>},
    step_index : Opt({3}), total_steps : {<< >>},
    elapsed_seconds : {<< >>}, tt_seconds : {<< >>}, next_channel : {<< >>},
    repeat_index : Opt({1}), repeat : Opt({2}), repeat_total : Opt({0, 2}),
    percent : Opt({40}), overall_percent : Opt({150}),
    enabled_count : Opt({0, 2}) ]

\* ----------------------------------------------- specifications
\* Each specification follows one part of the page.  The parts share only
\* the progress event: a handler left out of a specification neither reads
\* nor writes the variables that part is about.

\* The event stream alone, on a page with any stored mask.
NextEvents == \E d \in TimedEvents, t \in Durations : SSEHandler(d, t)

SpecEvents == Init /\ [][NextEvents]_vars

\* The jar grid under progress events and the selection controls.
Next ==
  \/ \E d \in JarEvents, t \in Durations : SSEHandler(d, t)
  \/ \E i \in Jars : JarClick(i)
  \/ \E state \in BOOLEAN : setAllJars(state)
  \/ invertJars

Spec == Init /\ [][Next]_vars

\* The summary toast and its dismissal record over several run identifiers.
NextAlert ==
  \/ \E d \in PhaseEvents, t \in Durations : SSEHandler(d, t)
  \/ StartClick
  \/ Tick
  \/ ToastClick
  \/ ToastTransitionEnd

SpecAlert == InitNoJars /\ [][NextAlert]_vars

\* The start countdown, the start request with its answer, and abort.
NextStart ==
  \/ \E d \in StepEvents, t \in Durations : SSEHandler(d, t)
  \/ StartClick
  \/ Tick
  \/ \E outcome \in {"ok", "notOk", "failed"} : StartResponse(outcome)
  \/ AbortClick

SpecStart == InitNoJars /\ [][NextStart]_vars

\* The progress circles and the stored payload values under partial events.
NextProgress == \E d \in ProgressEvents, t \in Durations : SSEHandler(d, t)

SpecProgress == InitNoJars /\ [][NextProgress]_vars

\* Events that name a channel and one of three phases
FaultEvents ==
  Events(Present(Channels), Present({"IDLE", "MEASURING", "SWITCHING"}),
         {<< >>}, {<< >>}, {<< >>})

\* The event stream on a page where calls made by the handler can throw;
\* the first two jars are selected.
NextFaults ==
  \/ \E d \in FaultEvents, t \in Durations : SSEHandler(d, t)
  \/ \E d \in FaultEvents, t \in Durations, point \in ThrowPoints :
        SSEHandlerThrows(d, t, point)

SpecFaults == InitPage(ScenarioAMask) /\ [][NextFaults]_vars

\* Events of a backend that stays idle: the phase is IDLE or absent
IdleEvents ==
  Events({<< >>, <<0>>}, {<< >>, <<"IDLE">>}, {<< >>}, {<< >>}, {<< >>, <<7>>})

\* The start control while the backend stays idle and refuses every start
\* request.  Events keep arriving on the stream, a started interval keeps
\* firing and every request is answered.
NextIdle ==
  \/ \E d \in IdleEvents, t \in Durations : SSEHandler(d, t)
  \/ StartClick
  \/ Tick
  \/ \E outcome \in {"notOk", "failed"} : StartResponse(outcome)

SpecIdle ==
  /\ InitNoJars
  /\ [][NextIdle]_vars
  /\ WF_vars(\E d \in IdleEvents, t \in Durations : SSEHandler(d, t))
  /\ WF_vars(Tick)
  /\ WF_vars(\E outcome \in {"notOk", "failed"} : StartResponse(outcome))

\* The summary toast on a page loaded in a tab whose session store holds no
\* run identifier or the text "NaN".
InitStore ==
  \E cycleItem \in {<< >>, <<NaNCycle>>} :
    InitStored([i \in Jars |-> FALSE], cycleItem)

SpecStore == InitStore /\ [][NextAlert]_vars

\* include_channels as the preferences may hold it: shorter than the grid,
\* of its length, or longer
StoredMasks == UNION {[1..n -> BOOLEAN] : n \in 0..(NumJars + 1)}

\* Events that lock and unlock the grid
LockEvents ==
  Events({<< >>}, Present({"IDLE", "MEASURING", "PAUSED"}),
         {<< >>}, {<< >>}, {<< >>})

\* The selection controls on a page loaded with any stored mask.
InitAnyMask == \E mask \in StoredMasks : InitPage(mask)

NextMask ==
  \/ \E d \in LockEvents, t \in Durations : SSEHandler(d, t)
  \/ \E i \in Jars : JarClick(i)
  \/ \E state \in BOOLEAN : setAllJars(state)
  \/ invertJars

SpecMask == InitAnyMask /\ [][NextMask]_vars

\* ------------------------------------------------------------ claims
UserJarOps == {"jarClick", "setAllJars", "invertJars"}
CurrentCycle == OrElse(measurementCycle, 0)

\* C1 as stated: an event whose (channel, phase) pair equals the pair of the
\* event processed just before it has no side effect but the recomputation
\* of the three progress circles.
C1_RepeatedPairNoSideEffect ==
  [][ (last'.op = "SSEHandler" /\ evPair' = evPair) =>
        /\ last'.fx = CircleFx
        /\ last'.notify = << >>
        /\ UNCHANGED <<engineVars, buttonVars, timerVars, isMeasurementRunning,
                       gridLocked, jars, channelInfo, alertVars,
                       measurementCycle, latestVars>> ]_vars

\* C1 as amended: such an event makes no call but the three progress-circle
\* updates and, besides the window.latest* values it stores from the payload,
\* changes nothing: not the stored pair, the buttons, the countdown, the
\* run-active flag, the grid lock, the jars, the channel display or the toast.
C1_RepeatedPairOnlyCircles ==
  [][ (last'.op = "SSEHandler" /\ evPair' = evPair) =>
        /\ last'.fx = CircleFx
        /\ last'.notify = << >>
        /\ latestCurrentChannel' = latestCurrentChannel
        /\ UNCHANGED <<engineVars, buttonVars, timerVars, isMeasurementRunning,
                       gridLocked, jars, channelInfo, alertVars,
                       measurementCycle>> ]_vars

\* A repeated SWITCHING event with an elapsed time arrived while a selected
\* jar is marked sampled
C1_Witness ==
  /\ last.op = "SSEHandler"
  /\ last.repeat
  /\ currentPhase = <<"SWITCHING">>
  /\ latestElapsedSeconds = <<7>>
  /\ \E i \in Jars : "sampled" \in jars[i]

\* C2: the handler emits a run summary exactly when the event changes the
\* phase to ABORTED ("Measurement Aborted") or from SWITCHING to IDLE
\* ("Measurement Complete"); no other event and no other handler emits one.
C2_SummaryExactlyOnTransition ==
  [][ IF last'.op = "SSEHandler"
        THEN LET newPhase == evPair'[1][2]
                 aborted == newPhase = "ABORTED" /\ currentPhase # <<"ABORTED">>
                 complete == newPhase = "IDLE" /\ currentPhase = <<"SWITCHING">>
             IN /\ aborted => /\ last'.notify # << >>
                              /\ last'.notify[1].message.title = "Measurement Aborted"
                /\ complete => /\ last'.notify # << >>
                               /\ last'.notify[1].message.title = "Measurement Complete"
                /\ ~(aborted \/ complete) => last'.notify = << >>
        ELSE /\ last'.notify = << >>
             /\ toast' \in {toast, << >>} \/ last'.op = "toastClick" ]_vars

\* A completion summary was emitted after a countdown had started a run
C2_Witness ==
  /\ last.op = "SSEHandler"
  /\ last.notify # << >>
  /\ last.notify[1].message.title = "Measurement Complete"
  /\ CurrentCycle = 1

\* C3: within one run identifier a summary of a given kind is emitted at
\* most once, also when the event that triggers it is delivered again later.
\* Stated on a step: no summary is emitted while the toast of an earlier
\* summary of the same kind and the same run identifier is still on the page.
C3_SummaryOncePerRun ==
  [][ ~ /\ last'.op = "SSEHandler"
        /\ last'.notify # << >>
        /\ toast # << >>
        /\ toast[1].key[1] = CurrentCycle
        /\ toast[1].message.title = last'.notify[1].message.title ]_vars

\* C4: showAlert keys the alert by run identifier, type and message; a call
\* with an acknowledged key presents nothing and changes nothing; any other
\* call presents the message; a key becomes acknowledged only by a click on
\* the presented alert, so an alert never clicked is presented again.
C4_ShowAlertDedup ==
  [][ /\ last'.notify # << >> =>
           LET n == last'.notify[1]
               key == <<CurrentCycle, n.type, n.message>>
           IN /\ dismissedAlerts' = dismissedAlerts
              /\ IF key \in dismissedAlerts
                   THEN toast' = toast
                   ELSE /\ toast' # << >>
                        /\ toast'[1].key = key
                        /\ toast'[1].message = n.message
                        /\ ~toast'[1].clicked
      /\ dismissedAlerts' # dismissedAlerts =>
           /\ last'.op = "toastClick"
           /\ toast # << >>
           /\ dismissedAlerts' = dismissedAlerts \cup {toast[1].key} ]_vars

\* A summary was emitted whose key is acknowledged, and nothing is shown
C4_Witness ==
  /\ last.op = "SSEHandler"
  /\ last.notify # << >>
  /\ <<CurrentCycle, last.notify[1].type, last.notify[1].message>> \in dismissedAlerts
  /\ toast = << >>

\* C5: a message shown and dismissed in run N is presented again in run
\* N+1, however run N+1 begins.  A run begins when the phase goes from none,
\* IDLE or ABORTED to an active phase; the summaries of the new run are all
\* presented iff no acknowledged key carries the run identifier in use.
C5_NewRunForgetsDismissals ==
  [][ ( /\ last'.op = "SSEHandler"
        /\ currentPhase \in {<< >>, <<"IDLE">>, <<"ABORTED">>}
        /\ currentPhase' # << >>
        /\ currentPhase'[1] \in {"MEASURING", "PAUSED", "SWITCHING", "HOMING"} )
      => \A k \in dismissedAlerts' : k[1] # OrElse(measurementCycle', 0) ]_vars

\* C6: the run identifier is the number of successfully started
\* measurements: once every start request is answered it equals the number
\* of requests answered with ok: true.
C6_CycleCountsOkStarts == startInFlight = 0 => CurrentCycle = startsOk

\* C7: the last-seen phase is always one of the six phases.
C7_PhaseIsKnown == currentPhase = << >> \/ currentPhase[1] \in PHASES

\* C8: a processed phase change into MEASURING, PAUSED, SWITCHING or HOMING
\* leaves start disabled and abort enabled; one into IDLE or ABORTED leaves
\* start enabled and abort disabled.
C8_ButtonsFollowPhase ==
  [][ (last'.op = "SSEHandler" /\ currentPhase' # currentPhase) =>
        LET newPhase == currentPhase'[1] IN
        /\ newPhase \in {"MEASURING", "PAUSED", "SWITCHING", "HOMING"} =>
             btnStartDisabled' /\ ~btnAbortDisabled'
        /\ newPhase \in {"IDLE", "ABORTED"} =>
             ~btnStartDisabled' /\ btnAbortDisabled' ]_vars

\* A change to ABORTED re-enabled start after startMeasurement disabled it
C8_Witness ==
  /\ last.op = "SSEHandler"
  /\ last.phaseChanged
  /\ currentPhase = <<"ABORTED">>
  /\ CurrentCycle = 1
  /\ ~btnStartDisabled

\* C9: while the run-active flag is set, no selection control changes the
\* mask.
C9_MaskFrozenWhileRunning ==
  [][ (isMeasurementRunning /\ last'.op \in UserJarOps) =>
        \A i \in Jars : ("active" \in jars'[i]) = ("active" \in jars[i]) ]_vars

\* C10: no unselected jar carries the sampling or the paused marker.
C10_MarkersOnlyOnSelected ==
  \A i \in Jars : "active" \notin jars[i] =>
                    "sampling" \notin jars[i] /\ "paused" \notin jars[i]

\* C11: a progress circle whose total is 0 shows 0%, whatever the value;
\* here the per-repeat circle, whose label ends in the total it was given.
C11_ZeroTotalShowsZero ==
  (last.op = "SSEHandler" /\ repeatCircle # << >> /\ repeatCircle[1].text[3] = 0)
    => repeatCircle[1].pct = Num(0)

\* C12: after the five events of scenario A jar 1 and jar 2 both carry the
\* sampled marker and no other jar carries a marker.
C12_ScenarioAMarkers ==
  last.scenarioA = 5 =>
    /\ "sampled" \in jars[1]
    /\ "sampled" \in jars[2]
    /\ \A i \in Jars \ {1, 2} : jars[i] \cap {"sampling", "sampled", "paused"} = {}

\* C13: an IDLE event processed while the stored phase is SWITCHING emits
\* "Measurement Complete" with the event's total_steps (0 when absent) as
\* both the completed and the total count, whatever its step_index, and the
\* alert shown carries that message unless its key is acknowledged.
C13_CompleteUsesTotalSteps ==
  [][ ( /\ last'.op = "SSEHandler"
        /\ currentPhase = <<"SWITCHING">>
        /\ last'.ev[1].phase = <<"IDLE">> )
      => LET total == OrElse(last'.ev[1].total_steps, 0) IN
         /\ last'.notify # << >>
         /\ last'.notify[1].message.title = "Measurement Complete"
         /\ last'.notify[1].message.completed = total
         /\ last'.notify[1].message.total = total
         /\ DismissKey(last'.notify[1].message, last'.notify[1].type) \notin dismissedAlerts
              => toast' # << >> /\ toast'[1].message = last'.notify[1].message ]_vars

\* A completion was reported as 2/2 by an event whose step_index is 1
C13_Witness ==
  /\ last.op = "SSEHandler"
  /\ last.ev[1].phase = <<"IDLE">>
  /\ last.ev[1].step_index = <<1>>
  /\ last.ev[1].total_steps = <<2>>
  /\ last.notify # << >>
  /\ last.notify[1].message.title = "Measurement Complete"
  /\ last.notify[1].message.completed = 2
  /\ last.notify[1].message.total = 2

\* C14: an ABORTED event processed while the stored phase is anything else
\* (none included) emits "Measurement Aborted" with the event's step_index
\* as the completed count and its total_steps as the total (0 when absent).
C14_AbortedUsesStepIndex ==
  [][ ( /\ last'.op = "SSEHandler"
        /\ currentPhase # <<"ABORTED">>
        /\ last'.ev[1].phase = <<"ABORTED">> )
      => /\ last'.notify # << >>
         /\ last'.notify[1].message.title = "Measurement Aborted"
         /\ last'.notify[1].message.completed = OrElse(last'.ev[1].step_index, 0)
         /\ last'.notify[1].message.total = OrElse(last'.ev[1].total_steps, 0)
         /\ DismissKey(last'.notify[1].message, last'.notify[1].type) \notin dismissedAlerts
              => toast' # << >> /\ toast'[1].message = last'.notify[1].message ]_vars

\* Scenario B's last event: an abort reported as 1/2 after a run was started
C14_Witness ==
  /\ last.op = "SSEHandler"
  /\ last.ev[1].phase = <<"ABORTED">>
  /\ last.notify # << >>
  /\ last.notify[1].message.title = "Measurement Aborted"
  /\ last.notify[1].message.completed = 1
  /\ last.notify[1].message.total = 2
  /\ CurrentCycle = 1

TickOps == {"tick", "startMeasurement"}

\* C15: a click with no countdown pending starts one at START_DELAY; every
\* tick lowers it by one; the tick that takes it from 1 to 0, the
\* START_DELAY-th, issues exactly one start request and ends the interval;
\* a request is issued by no other step, so none follows until a new click.
C15_OneRequestPerCountdown ==
  [][ /\ intervalActive' => countdownTimer' /\ countdown' \in 1..START_DELAY
      /\ (last'.op = "startClick" /\ ~countdownTimer /\ ~isMeasurementRunning)
           => /\ countdown' = START_DELAY
              /\ intervalActive'
              /\ startInFlight' = startInFlight
      /\ (last'.op \in TickOps /\ ~isMeasurementRunning)
           => /\ intervalActive
              /\ countdown' = countdown - 1
              /\ startInFlight' = startInFlight + (IF countdown = 1 THEN 1 ELSE 0)
      /\ startInFlight' > startInFlight
           => /\ last'.op = "startMeasurement"
              /\ countdown = 1
              /\ startInFlight' = startInFlight + 1
              /\ ~intervalActive'
              /\ ~countdownTimer' ]_vars

\* The countdown ran out and its one request is in flight
C15_Witness ==
  /\ last.op = "startMeasurement"
  /\ countdown = 0
  /\ startInFlight = 1
  /\ CurrentCycle = 1
  /\ ~intervalActive
  /\ ~countdownTimer

\* C16: a click while a countdown is pending ends the interval, drops the
\* handle and puts the countdown back to START_DELAY without a request and
\* without touching the run identifier or the buttons; no tick fires while
\* no interval is active; a click with no countdown pending starts a full
\* one.
C16_SecondClickCancels ==
  [][ /\ (last'.op = "startClick" /\ countdownTimer /\ ~isMeasurementRunning)
           => /\ ~countdownTimer'
              /\ ~intervalActive'
              /\ countdown' = START_DELAY
              /\ UNCHANGED <<measurementCycle, requestVars, buttonVars,
                             engineVars, isMeasurementRunning>>
      /\ (last'.op = "startClick" /\ ~countdownTimer /\ ~isMeasurementRunning)
           => countdownTimer' /\ intervalActive' /\ countdown' = START_DELAY
      /\ ~intervalActive
           => last'.op \notin TickOps /\ startInFlight' <= startInFlight ]_vars

\* A countdown was cancelled by a click: nothing pending, no request sent
C16_Witness ==
  /\ last.op = "startClick"
  /\ ~countdownTimer
  /\ ~intervalActive
  /\ countdown = START_DELAY
  /\ startInFlight = 0
  /\ startsOk = 0
  /\ CurrentCycle = 0
  /\ ~btnStartDisabled

\* The value of a numeric field, 0 when the field is absent
FieldOrZero(f) == IF f = << >> THEN 0 ELSE f[1]

\* C17: whatever fields an event lacks, the handler completes and uses 0
\* for each absent numeric field: in the channel it stores, in the
\* window.latest* values, in the labels and percents of the three circles
\* and in the counts of a summary; with percent absent the cycle circle
\* shows 0.
C17_AbsentFieldsAreZero ==
  [][ last'.op = "SSEHandler" =>
        LET d == last'.ev[1]
            r == IF d.repeat_index # << >> THEN d.repeat_index[1]
                 ELSE FieldOrZero(d.repeat)
        IN /\ currentChannel' = FieldOrZero(d.current_channel)
           /\ latestCurrentChannel' = <<FieldOrZero(d.current_channel)>>
           /\ latestElapsedSeconds' = <<FieldOrZero(d.elapsed_seconds)>>
           /\ latestTtSeconds' = <<FieldOrZero(d.tt_seconds)>>
           /\ latestNextChannel' = <<FieldOrZero(d.next_channel)>>
           /\ repeatCircle' # << >>
           /\ repeatCircle'[1].text = <<r, "/", FieldOrZero(d.repeat_total)>>
           /\ runCircle' # << >>
           /\ runCircle'[1].pct = Clamp(Num(FieldOrZero(d.percent)))
           /\ d.percent = << >> => runCircle'[1].pct = Num(0)
           /\ runCircle'[1].text[3] = FieldOrZero(d.enabled_count)
           /\ d.step_index = << >> => runCircle'[1].text[1] = 0
           /\ overallCircle' # << >>
           /\ overallCircle'[1].pct = Clamp(Num(FieldOrZero(d.overall_percent)))
           /\ last'.notify # << >> =>
                /\ last'.notify[1].message.total = FieldOrZero(d.total_steps)
                /\ last'.notify[1].message.completed \in
                     {FieldOrZero(d.total_steps), FieldOrZero(d.step_index)} ]_vars

\* Scenario D: an event without percent, with step index 3 of 2 enabled
\* channels, left the cycle circle at 0% with the label 1/2
C17_Witness ==
  /\ last.op = "SSEHandler"
  /\ last.ev[1].percent = << >>
  /\ last.ev[1].step_index = <<3>>
  /\ last.ev[1].enabled_count = <<2>>
  /\ runCircle = << [pct |-> Num(0), text |-> <<1, "/", 2>>, range |-> "0-25"] >>

\* C18: an event without a phase field leaves the stored phase, the
\* buttons, the run-active flag and the grid lock as they were and emits no
\* summary.
C18_AbsentPhaseKeepsPhase ==
  [][ (last'.op = "SSEHandler" /\ last'.ev[1].phase = << >>)
      => /\ ~last'.phaseChanged
         /\ last'.notify = << >>
         /\ UNCHANGED <<currentPhase, buttonVars, isMeasurementRunning,
                        gridLocked>> ]_vars

\* C19: an event during which the handler throws leaves the stored channel
\* and phase, the buttons, the run-active flag and the jar markers as they
\* were.
C19_ThrowDropsEvent ==
  [][ last'.op = "SSEHandlerThrew"
      => UNCHANGED <<engineVars, buttonVars, isMeasurementRunning, jars>> ]_vars

\* C20: after a failed start request, with the backend staying idle, the
\* start button is eventually enabled again.
C20_FailedStartUnblocks == (last.op = "startFailed") ~> ~btnStartDisabled

StartAbortOps == {"startClick", "tick", "startMeasurement", "startOk",
                  "startFailed", "abortRequest"}

\* C21: the run-active flag changes only in a step of SSEHandler that
\* processes a phase change; start clicks, ticks, the expiry with its start
\* request, the request's answer and the abort request leave it as it was.
C21_OnlyEngineSetsRunning ==
  [][ /\ isMeasurementRunning' # isMeasurementRunning
           => last'.op = "SSEHandler" /\ last'.phaseChanged
      /\ last'.op \in StartAbortOps
           => isMeasurementRunning' = isMeasurementRunning ]_vars

\* A start request was sent and answered ok, and the flag is still false
C21_Witness ==
  /\ last.op = "startOk"
  /\ startsOk = 1
  /\ ~isMeasurementRunning
  /\ currentPhase = <<"IDLE">>

IdlePhases == {<< >>, <<"IDLE">>, <<"ABORTED">>}

C23_StoreRecovers ==
  [][ last'.op = "startMeasurement" =>
        measurementCycle' =
          << (IF measurementCycle \in {<< >>, <<NaNCycle>>}
                THEN 0 ELSE measurementCycle[1]) + 1 >> ]_vars

Markers == {"sampling", "sampled", "paused"}

\* C24: resetJarStates leaves no sampling, sampled or paused marker on any
\* jar and leaves every selection flag as it is.
C24_ResetClearsAllMarkers ==
  \A i \in Jars :
    /\ resetJarStates(jars)[i] \cap Markers = {}
    /\ ("active" \in resetJarStates(jars)[i]) = ("active" \in jars[i])

\* The phase an event carries for the handler
EventPhase(d) == IF d.phase = << >> THEN "IDLE" ELSE d.phase[1]

\* C25: SSEHandler resets the markers exactly when the event's channel
\* differs from the stored channel, its phase differs from the stored phase
\* and its channel is 0.  Seen on the jars the recolor does not touch: on a
\* reset they lose sampling and sampled, otherwise they keep their classes.
C25_ResetIffNewPassStarts ==
  [][ last'.op = "SSEHandler" =>
        LET d == last'.ev[1]
            ch == FieldOrZero(d.current_channel)
            reset == /\ currentChannel # ch
                     /\ currentPhase # <<EventPhase(d)>>
                     /\ ch = 0
        IN /\ ("resetJarStates" \in last'.fx) = reset
           /\ \A i \in Jars \ {ch + 1} :
                jars'[i] = IF reset THEN jars[i] \ {"sampling", "sampled"}
                           ELSE jars[i] ]_vars

\* A reset ran on a MEASURING event for channel 0 and left another jar's
\* paused marker behind
C25_Witness ==
  /\ last.op = "SSEHandler"
  /\ "resetJarStates" \in last.fx
  /\ currentPhase = <<"MEASURING">>
  /\ "sampling" \in jars[1]
  /\ \E i \in Jars \ {1} : "paused" \in jars[i]

\* C26: an event that does not run resetJarStates leaves every sampled
\* marker of a selected jar in place.
C26_SampledStaysUntilReset ==
  [][ (last'.op = "SSEHandler" /\ "resetJarStates" \notin last'.fx)
      => \A i \in Jars :
           {"active", "sampled"} \subseteq jars[i] => "sampled" \in jars'[i] ]_vars

\* C27: every click that begins a countdown begins it at START_DELAY, and
\* a countdown that is not pending and has not just run out stands at
\* START_DELAY: after a cancelling click and after a cancelling phase change.
C27_CountdownStartsFull ==
  [][ /\ (last'.op = "startClick" /\ countdownTimer')
           => countdown' = START_DELAY
      /\ (last'.op = "startClick" /\ ~countdownTimer')
           => countdown' = START_DELAY
      /\ (last'.op = "SSEHandler" /\ countdownTimer /\ ~countdownTimer')
           => countdown' = START_DELAY
      /\ ~countdownTimer' => countdown' \in {0, START_DELAY} ]_vars

\* A second countdown was begun at START_DELAY after the first had run out
\* and an IDLE or ABORTED event had enabled the button again
C27_Witness ==
  /\ last.op = "startClick"
  /\ countdownTimer
  /\ countdown = START_DELAY
  /\ CurrentCycle = 1
  /\ startInFlight = 1

\* C29: no countdown is pending while the run-active flag is set; the
\* handle is non-null exactly while the interval still fires; a processed
\* change to a phase other than IDLE ends a pending countdown, puts it back
\* to START_DELAY and sends no start request.
C29_NoCountdownWhileRunning ==
  [][ /\ isMeasurementRunning' => ~countdownTimer'
      /\ countdownTimer' = intervalActive'
      /\ ( /\ last'.op = "SSEHandler"
            /\ last'.phaseChanged
            /\ EventPhase(last'.ev[1]) # "IDLE"
            /\ countdownTimer )
           => /\ ~countdownTimer'
              /\ ~intervalActive'
              /\ countdown' = START_DELAY
              /\ UNCHANGED <<requestVars, measurementCycle>> ]_vars

\* A MEASURING event ended a pending countdown
C29_Witness ==
  /\ last.op = "SSEHandler"
  /\ "clearInterval" \in last.fx
  /\ currentPhase = <<"MEASURING">>
  /\ isMeasurementRunning
  /\ ~countdownTimer
  /\ ~intervalActive
  /\ countdown = START_DELAY
  /\ startInFlight = 0

\* C30: after every event SSEHandler processes, the run-active flag and
\* the grid lock both say whether the stored phase is MEASURING, PAUSED,
\* SWITCHING or HOMING, and abort is enabled exactly when the flag is set.
C30_FlagLockAbortAgree ==
  [][ last'.op = "SSEHandler" =>
        /\ isMeasurementRunning' =
             (currentPhase' \in {<<"MEASURING">>, <<"PAUSED">>, <<"SWITCHING">>, <<"HOMING">>})
        /\ gridLocked' = isMeasurementRunning'
        /\ (~btnAbortDisabled') = isMeasurementRunning' ]_vars

\* C28: the mask read from the grid always has one flag per jar of the
\* grid, whatever the length of the mask applied at load and whatever
\* selection control is used; right after the load its flags are those of
\* the applied mask, FALSE where the applied mask has no entry.
C28_MaskLengthFixed ==
  /\ DOMAIN getJarMask = 1..NumJars
  /\ Len(getJarMask) = NumJars
  /\ last.op = "DOMContentLoaded" =>
       \A i \in 1..NumJars :
         getJarMask[i] = (i <= Len(last.mask) /\ last.mask[i])

\* A mask of one entry was applied at load: the grid's mask has NumJars
\* flags, the first set and the others not
C28_Witness ==
  /\ last.op = "DOMContentLoaded"
  /\ last.mask = <<TRUE>>
  /\ Len(getJarMask) = NumJars
  /\ getJarMask = [i \in 1..NumJars |-> i = 1]

\* C31: in every state the abort button is enabled exactly when the start
\* button is disabled, also between the expiry of the countdown, when the
\* start request is sent, and the next processed phase change.
C31_AbortIsNotStart == btnAbortDisabled = ~btnStartDisabled

\* C32: at most one jar carries the sampling marker, and a jar that carries
\* it is the jar of the last-seen channel.
C32_OneSamplingOnCurrent ==
  /\ Cardinality({i \in DOMAIN jars : "sampling" \in jars[i]}) <= 1
  /\ \A i \in DOMAIN jars : "sampling" \in jars[i] => currentChannel = i - 1

\* C33: the dismissal record only grows: no step removes an acknowledged
\* key, whatever showAlert calls and dismissals follow.
C33_DismissalsOnlyGrow == [][dismissedAlerts \subseteq dismissedAlerts']_vars

\* A click acknowledged a second key while an earlier one stays acknowledged
C33_Witness ==
  /\ last.op = "toastClick"
  /\ toast # << >>
  /\ toast[1].key \in dismissedAlerts
  /\ \E k \in dismissedAlerts : k # toast[1].key

====
